---- MODULE Spec2Model ----
(***************************************************************************)
(* Model of terraform-provider-imgix: the typed HTTP client (client.go,    *)
(* api_error.go) and the resource operations built on it                   *)
(* (resource_imgix_source.go).                                             *)
(*                                                                         *)
(* Go values are modelled as follows.  A pointer field is a tuple: <<>> is *)
(* the nil pointer and <<v>> points at v.  A struct is a record.  A JSON   *)
(* object is a function from its member names to their values, so that a   *)
(* member that is left out is not in the DOMAIN; a JSON member that may be *)
(* null keeps the tuple encoding (<<>> is null).                           *)
(***************************************************************************)
EXTENDS Integers, Sequences, FiniteSets, TLC

VARIABLES
    pc,        \* position of the caller (see the actions)
    config,    \* the Config handed to NewClient
    c,         \* the client NewClient returned: <<>> or <<[apiKey, apiUrl]>>
    cerr,      \* the error NewClient returned: <<>> or <<error>>
    src,       \* the caller's Source, the target of the *Source it passes
    arg,       \* the value src had when the last client call was entered
    call,      \* the last client call made: its name, or "none"
    wire,      \* the requests of the operation under way, in order
    resp,      \* the reply to the last request: <<>> or <<response>>
    ret,       \* what the last client call returned
    op,        \* the resource operation under way: its name, or "none"
    d,         \* the schema.ResourceData of the resource
    w,         \* the StateChangeConf wait under way
    diags,     \* what the resource operation returned
    remote,    \* the source as the API holds it
    data,      \* the schema.ResourceData of the data source being read
    eval       \* the last helper function applied: its name, arguments and result

clientVars == <<config, c, cerr>>

callVars == <<src, arg, call, wire, resp, ret>>

engineVars == <<op, d, w, diags, remote, data>>

vars == <<pc, config, c, cerr, src, arg, call, wire, resp, ret, op, d, w, diags, remote,
          data, eval>>

----------------------------------------------------------------------------
(* Bounds of the model *)

\* longest "errors" list of an error envelope the server sends
MaxErrors == 2

----------------------------------------------------------------------------
(* Program constants *)

apiUrl == "https://api.imgix.com"

TypeSource == "sources"

InvalidAwsAccessKeyError == "aws_access_key"

StatusOK == 200

StatusCreated == 201

MethodGet == "GET"

MethodPost == "POST"

\* faulty variant of MethodPatch: the update is sent as a removal
MethodPatchAsDelete == "DELETE"

MethodPatch == "PATCH"

NIL == <<>>

Ptr(v) == <<v>>

\* a JSON object with no members
EmptyObject == [k \in {} |-> k]

\* an `omitempty` pointer member: left out when the pointer is nil
OmitEmpty(key, p) == IF p = NIL THEN EmptyObject ELSE (key :> p[1])

\* a member of object o decoded into a pointer field: nil when it is absent
Member(o, key) == IF key \in DOMAIN o THEN Ptr(o[key]) ELSE NIL

\* a nullable member of object o decoded into a pointer field
Nullable(o, key) == IF key \in DOMAIN o THEN o[key] ELSE NIL

----------------------------------------------------------------------------
(* Errors *)

\* errors.New(msg); status is the HTTP status code the message carries, 0 for none
ErrorString(msg, status) ==
    [type |-> "errorString", msg |-> msg, status |-> status, Errors |-> <<>>]

missingAccessKeyError == ErrorString("missing access key", 0)

\* the zero ApiError, and one with the given entries
ApiErrorValue(entries) ==
    [type |-> "ApiError", msg |-> "", status |-> 0, Errors |-> entries]

\* &ApiError{...}: an error whose dynamic type is *ApiError
ApiErrorPointer(entries) ==
    [type |-> "*ApiError", msg |-> "", status |-> 0, Errors |-> entries]

----------------------------------------------------------------------------
(* Source and its JSON forms *)

\* the zero value of Source
ZeroSource ==
    [Id |-> NIL, Type |-> NIL,
     Attributes |->
        [DateDeployed |-> NIL, DeploymentStatus |-> NIL, Enabled |-> NIL,
         Name |-> "", SecureUrlToken |-> NIL,
         Deployment |->
            [AllowsUpload |-> NIL, S3AccessKey |-> NIL, S3SecretKey |-> NIL,
             Type |-> ""]]]

\* json.Marshal of a sourceDeployment, by its field tags
MarshalDeployment(dep) ==
    OmitEmpty("allows_upload", dep.AllowsUpload)
    @@ [s3_access_key |-> dep.S3AccessKey,
        s3_secret_key |-> dep.S3SecretKey,
        type |-> dep.Type]

\* json.Marshal of a sourceAttributes, by its field tags
MarshalAttributes(a) ==
    OmitEmpty("date_deployed", a.DateDeployed)
    @@ OmitEmpty("deployment_status", a.DeploymentStatus)
    @@ OmitEmpty("enabled", a.Enabled)
    @@ OmitEmpty("secure_url_token", a.SecureUrlToken)
    @@ [name |-> a.Name, deployment |-> MarshalDeployment(a.Deployment)]

\* json.Marshal of the alias type of Source (the plain struct encoding)
MarshalAlias(a) ==
    OmitEmpty("id", a.Id)
    @@ OmitEmpty("type", a.Type)
    @@ [attributes |-> MarshalAttributes(a.Attributes)]

\* faulty variant: the plain struct encoding of s, nothing cleared
MarshalJSONKeepingComputed(s) == MarshalAlias(s)

\* Source.MarshalJSON: the copy has the server-computed fields cleared
MarshalJSON(s) ==
    MarshalAlias(
        [s EXCEPT !.Attributes.DateDeployed = NIL,
                  !.Attributes.DeploymentStatus = NIL,
                  !.Attributes.SecureUrlToken = NIL,
                  !.Attributes.Deployment.AllowsUpload = NIL])

\* json.Marshal(SourceRequest{Data: source})
MarshalSourceRequest(s) == [data |-> MarshalJSON(s)]

\* decoding a JSON object into a sourceDeployment
DecodeDeployment(o) ==
    [AllowsUpload |-> Member(o, "allows_upload"),
     S3AccessKey |-> Nullable(o, "s3_access_key"),
     S3SecretKey |-> Nullable(o, "s3_secret_key"),
     Type |-> IF "type" \in DOMAIN o THEN o.type ELSE ""]

\* decoding a JSON object into a sourceAttributes
DecodeAttributes(o) ==
    [DateDeployed |-> Member(o, "date_deployed"),
     DeploymentStatus |-> Member(o, "deployment_status"),
     Enabled |-> Member(o, "enabled"),
     Name |-> IF "name" \in DOMAIN o THEN o.name ELSE "",
     SecureUrlToken |-> Member(o, "secure_url_token"),
     Deployment |-> IF "deployment" \in DOMAIN o
                    THEN DecodeDeployment(o.deployment)
                    ELSE ZeroSource.Attributes.Deployment]

\* json Decode of object o into a Source: the members id, type and attributes
\* of o itself are read, every other member is skipped
DecodeSource(o) ==
    [Id |-> Member(o, "id"),
     Type |-> Member(o, "type"),
     Attributes |-> IF "attributes" \in DOMAIN o
                    THEN DecodeAttributes(o.attributes)
                    ELSE ZeroSource.Attributes]

\* json Decode of object o into a SourceRequest; the result is its Data field
DecodeSourceRequest(o) ==
    IF "data" \in DOMAIN o THEN Ptr(DecodeSource(o.data)) ELSE NIL

\* one {status, title, detail} object decoded into an entry of ApiError.Errors
DecodeErrorEntry(e) == [Detail |-> e.detail, Status |-> e.status, Title |-> e.title]

\* json.Unmarshal of object o into an ApiError: its Errors field
DecodeApiError(o) ==
    IF "errors" \in DOMAIN o
    THEN [i \in 1..Len(o.errors) |-> DecodeErrorEntry(o.errors[i])]
    ELSE <<>>

----------------------------------------------------------------------------
(* The HTTP exchange *)

\* c.doRequest: the request put on the wire
doRequest(cl, method, path, body) ==
    [method |-> method,
     url |-> cl.apiUrl \o path,
     Authorization |-> "Bearer " \o cl.apiKey,
     ContentType |-> "application/json",
     body |-> body]

\* what http.DefaultClient.Do hands back: fail is a transport failure (no
\* response); otherwise a status code and a body.  A body is JSON text holding
\* object obj, text that is no JSON ("garbage"), or a stream whose read fails
\* ("unreadable").
Response(fail, status, fmt, obj) ==
    [fail |-> fail, status |-> status, fmt |-> fmt, obj |-> obj]

\* the error c.doRequest returns on a transport failure
transportError == ErrorString("transport", 0)

\* faulty variant of serializeApiError: the entries are collected in reverse
serializeApiErrorReversed(res) ==
    IF res.fmt = "unreadable"
    THEN ErrorString("Error parsing response from request. Status code: %d", res.status)
    ELSE IF res.fmt = "garbage"
    THEN ErrorString("Error parsing response: ", 0)
    ELSE LET es == DecodeApiError(res.obj)
         IN  ApiErrorPointer([i \in 1..Len(es) |-> es[Len(es) + 1 - i]])

\* serializeApiError
serializeApiError(res) ==
    IF res.fmt = "unreadable"
    THEN ErrorString("Error parsing response from request. Status code: %d", res.status)
    ELSE IF res.fmt = "garbage"
    THEN ErrorString("Error parsing response: ", 0)
    ELSE ApiErrorPointer(DecodeApiError(res.obj))

\* what a client call returns: a *Source and an error
Return(source, err) == [source |-> source, err |-> err]

\* c.sendSourceRequest: the request it sends
sendSourceRequest(cl, endpoint, method, source) ==
    doRequest(cl, method, endpoint, MarshalSourceRequest(source))

\* the error c.sendSourceRequest returns on a transport failure
sendError == ErrorString("Error sending request to Imgix API: %s", 0)

\* c.getSourceById: the request, and the result for response res
getSourceByIdRequest(cl, id) == doRequest(cl, MethodGet, "/api/v1/sources/" \o id, NIL)

getSourceById(res) ==
    IF res.fail THEN Return(NIL, Ptr(transportError))
    ELSE IF res.fmt # "json" THEN Return(NIL, Ptr(ErrorString("decode", 0)))
    ELSE Return(DecodeSourceRequest(res.obj), NIL)

\* c.createSource: the request, and the result for response res
createSourceRequest(cl, source) ==
    sendSourceRequest(cl, "/api/v1/sources", MethodPost, source)

createSource(res) ==
    IF res.fail THEN Return(NIL, Ptr(sendError))
    ELSE IF res.status # StatusCreated THEN Return(NIL, Ptr(serializeApiError(res)))
    ELSE Return(Ptr(IF res.fmt = "json" THEN DecodeSource(res.obj) ELSE ZeroSource), NIL)

\* c.updateSource: the request, and the result for response res
updateSourceRequest(cl, source) ==
    sendSourceRequest(cl, "/api/v1/sources/" \o source.Id[1], MethodPatch, source)

\* faulty variant: every 2xx status counts as success
updateSourceAny2xx(source, res) ==
    IF res.fail THEN Return(NIL, Ptr(sendError))
    ELSE IF res.status < 200 \/ res.status > 299
    THEN Return(NIL, Ptr(serializeApiError(res)))
    ELSE Return(Ptr(source), NIL)

updateSource(source, res) ==
    IF res.fail THEN Return(NIL, Ptr(sendError))
    ELSE IF res.status # StatusOK THEN Return(NIL, Ptr(serializeApiError(res)))
    ELSE Return(Ptr(source), NIL)

\* c.deleteSource: the caller's Source after source.Attributes.Enabled = Bool(false)
\* faulty variant: the flag is left as it was
deleteSourceDisableSkipped(source) == source

deleteSourceDisable(source) == [source EXCEPT !.Attributes.Enabled = Ptr(FALSE)]

\* faulty variant of deleteSourceLeaves: a failed update gives the Source back
\* as it was passed
deleteSourceRestoring(disabled, given, err) ==
    IF err # NIL THEN given ELSE disabled

\* the caller's Source when deleteSource returns err: given was passed,
\* disabled was sent, and nothing is assigned after the update
deleteSourceLeaves(disabled, given, err) == disabled

\* NewClient
\* faulty variant: the key is not checked
NewClientUnchecked(cfg) ==
    [client |-> Ptr([apiKey |-> cfg.AccessKey,
                     apiUrl |-> IF cfg.ApiBaseUrl = "" THEN apiUrl ELSE cfg.ApiBaseUrl]),
     err |-> NIL]

NewClient(cfg) ==
    IF cfg.AccessKey = ""
    THEN [client |-> NIL, err |-> Ptr(missingAccessKeyError)]
    ELSE [client |-> Ptr([apiKey |-> cfg.AccessKey,
                          apiUrl |-> IF cfg.ApiBaseUrl = "" THEN apiUrl ELSE cfg.ApiBaseUrl]),
          err |-> NIL]

----------------------------------------------------------------------------
(* Inputs: the callers' values and the server's replies *)

\* the Config values handed to NewClient
Configs == [AccessKey : {"", "abc"}, ApiBaseUrl : {"", "http://127.0.0.1"}]

\* the Source values callers hold: every field is a nil pointer or set
Sources ==
    { [Id |-> id, Type |-> Ptr(TypeSource),
       Attributes |->
          [DateDeployed |-> dd, DeploymentStatus |-> ds, Enabled |-> en,
           Name |-> "source1", SecureUrlToken |-> tok,
           Deployment |->
              [AllowsUpload |-> au, S3AccessKey |-> Ptr("AKIABCDEFGHI"),
               S3SecretKey |-> Ptr("secret"), Type |-> "s3"]]] :
      id \in {NIL, Ptr("601430223753592c4e822e2c")},
      dd \in {NIL, Ptr(1612274615)},
      ds \in {NIL, Ptr("deployed")},
      en \in {NIL, Ptr(TRUE), Ptr(FALSE)},
      tok \in {NIL, Ptr("token")},
      au \in {NIL, Ptr(TRUE)} }

\* the JSON the API renders for a source: the secret key is never echoed
ServerDoc(id, status, enabled) ==
    [id |-> id, type |-> TypeSource,
     attributes |->
        [date_deployed |-> 1612274615, deployment_status |-> status,
         enabled |-> enabled, name |-> "source1",
         deployment |->
            [allows_upload |-> FALSE, s3_access_key |-> Ptr("AKIABCDEFGHI"),
             s3_secret_key |-> NIL, type |-> "s3"]]]

\* the id the server assigns to a created source
ServerId == "60081817b721f6b6a15b09e7"

\* the entries an error envelope may list
ErrorEntries ==
    { [status |-> "400", title |-> InvalidAwsAccessKeyError, detail |-> "invalid key"],
      [status |-> "404", title |-> "not_found", detail |-> "no such source"] }

\* the lists of at most n entries
RECURSIVE ErrorLists(_)
ErrorLists(n) ==
    IF n = 0 THEN {<<>>}
    ELSE LET shorter == ErrorLists(n - 1)
         IN  shorter \cup
             { Append(l, e) : l \in {s \in shorter : Len(s) = n - 1}, e \in ErrorEntries }

\* {"errors": [...]}
ErrorEnvelope(es) == [errors |-> es]

\* {"data": <Source>}
DataEnvelope(doc) == [data |-> doc]

\* the JSON objects a reply may carry
ReplyObjects ==
    { ErrorEnvelope(es) : es \in ErrorLists(MaxErrors) }
    \cup { DataEnvelope(ServerDoc(ServerId, "deploying", TRUE)),
           ServerDoc(ServerId, "deploying", TRUE),
           EmptyObject }

\* the replies of the server, and the failure of the transport
Responses ==
    { Response(FALSE, st, "json", o) : st \in {StatusOK, StatusCreated, 204, 404},
                                       o \in ReplyObjects }
    \cup { Response(FALSE, st, f, EmptyObject) :
             st \in {StatusOK, StatusCreated, 204, 404}, f \in {"garbage", "unreadable"} }
    \cup { Response(TRUE, 0, "garbage", EmptyObject) }

NoReturn == Return(NIL, NIL)

----------------------------------------------------------------------------
(* Resource data and the wait helper *)

\* *p, or zero for the nil pointer (what d.Set stores for a nil pointer)
Deref(p, zero) == IF p = NIL THEN zero ELSE p[1]

\* the ResourceData of a resource not yet created, with n deployment blocks
NewResourceData(n, wait, secret) ==
    [Id |-> "", type |-> "", name |-> "source1", deployment_status |-> "",
     date_deployed |-> 0, enabled |-> TRUE, secure_url_token |-> "",
     wait_for_deployed |-> wait, deployments |-> n,
     deployment |-> [allows_upload |-> FALSE, s3_access_key |-> "AKIABCDEFGHI",
                     s3_secret_key |-> secret, type |-> "s3"]]

\* the resource-data sets the operations are run on
ResourceDatas ==
    { NewResourceData(n, wait, "secret") : n \in {0, 1, 2}, wait \in BOOLEAN }
    \cup { [NewResourceData(1, wait, "secret") EXCEPT
               !.Id = ServerId, !.type = TypeSource,
               !.deployment_status = "deployed", !.date_deployed = 1612274615,
               !.enabled = en] : wait \in BOOLEAN, en \in BOOLEAN }

\* getSourceFromResourceData
getSourceFromResourceData(rd) ==
    IF rd.deployments # 1
    THEN Return(NIL, Ptr(ErrorString("Invalid number of deployment elemements in list: %d",
                                     rd.deployments)))
    ELSE Return(
           Ptr([Id |-> Ptr(rd.Id), Type |-> Ptr(rd.type),
                Attributes |->
                   [DateDeployed |-> Ptr(rd.date_deployed),
                    DeploymentStatus |-> Ptr(rd.deployment_status),
                    Enabled |-> Ptr(rd.enabled),
                    Name |-> rd.name,
                    SecureUrlToken |-> Ptr(rd.secure_url_token),
                    Deployment |->
                       [AllowsUpload |-> Ptr(rd.deployment.allows_upload),
                        S3AccessKey |-> Ptr(rd.deployment.s3_access_key),
                        S3SecretKey |-> Ptr(rd.deployment.s3_secret_key),
                        Type |-> rd.deployment.type]]]),
           NIL)

\* isImgixApiErr: errors.As(err, &imgixErr) with imgixErr an ApiError matches an
\* error whose dynamic type is ApiError; a *ApiError is not assignable to it
isImgixApiErr(err, title) ==
    /\ err.type = "ApiError"
    /\ \E i \in 1..Len(err.Errors) : err.Errors[i].Title = title

\* what a Refresh function returns
RefreshResult(result, state, err) == [result |-> result, state |-> state, err |-> err]

\* faulty variant of requestRefresh: an error of the operation is dropped
requestRefreshSwallowing(r) ==
    IF r.err # NIL THEN RefreshResult(NIL, "ok", NIL)
    ELSE RefreshResult(r.source, "ok", NIL)

\* the Refresh closure of makeSourceRequest, given what operation() returned
requestRefresh(r) ==
    IF r.err # NIL
    THEN IF isImgixApiErr(r.err[1], InvalidAwsAccessKeyError)
         THEN RefreshResult(NIL, "retry", r.err)
         ELSE RefreshResult(NIL, "error", r.err)
    ELSE RefreshResult(r.source, "ok", NIL)

\* faulty variant of sourceStateRefreshFunc: the status is not reported
sourceStateRefreshFuncNoStatus(r) ==
    IF r.err # NIL THEN RefreshResult(NIL, "", r.err)
    ELSE IF r.source = NIL
    THEN RefreshResult(NIL, "", Ptr(ErrorString("source not found", 0)))
    ELSE RefreshResult(r.source, "", NIL)

\* faulty variant of sourceStateRefreshFunc: a failed call counts as deploying
sourceStateRefreshFuncSwallowing(r) ==
    IF r.err # NIL THEN RefreshResult(NIL, "deploying", NIL)
    ELSE IF r.source = NIL
    THEN RefreshResult(NIL, "", Ptr(ErrorString("source not found", 0)))
    ELSE RefreshResult(r.source, Deref(r.source[1].Attributes.DeploymentStatus, ""), NIL)

\* sourceStateRefreshFunc, given what client.getSourceById returned
sourceStateRefreshFunc(r) ==
    IF r.err # NIL THEN RefreshResult(NIL, "", r.err)
    ELSE IF r.source = NIL
    THEN RefreshResult(NIL, "", Ptr(ErrorString("source not found", 0)))
    ELSE RefreshResult(r.source, Deref(r.source[1].Attributes.DeploymentStatus, ""), NIL)

\* time is counted in tenths of a second

\* makeSourceRequest: Delay: time.Second * 3
RequestDelay == 30

\* makeSourceRequest: Timeout: time.Second * 10
RequestTimeout == 100

\* waitForSourceToBeDeployed: Delay: 5 * time.Second
DeployDelay == 50

\* the timeout d.Timeout(schema.TimeoutRead) yields for the resource
ReadTimeout == 80

\* how long a slow HTTP exchange takes; a fast one takes no time
SlowExchange == 80

Durations == {0, SlowExchange}

\* faulty variant of requestConf: no Delay is set
requestConfNoDelay ==
    [Pending |-> {"retry"}, Target |-> {"ok"},
     Delay |-> 0, Timeout |-> RequestTimeout]

\* the StateChangeConf of makeSourceRequest
requestConf ==
    [Pending |-> {"retry"}, Target |-> {"ok"},
     Delay |-> RequestDelay, Timeout |-> RequestTimeout]

\* faulty variant of deployConf: deployed is taken for a pending status
deployConfDeployedPending(timeout) ==
    [Pending |-> {"deploying", "deployed"}, Target |-> {"ok"},
     Delay |-> DeployDelay, Timeout |-> timeout]

\* the StateChangeConf of waitForSourceToBeDeployed
deployConf(timeout) ==
    [Pending |-> {"deploying"}, Target |-> {"deployed"},
     Delay |-> DeployDelay, Timeout |-> timeout]

UnexpectedStateError(state) == [type |-> "UnexpectedStateError", State |-> state]

TimeoutError(lastError, lastState) ==
    [type |-> "TimeoutError", LastError |-> lastError, LastState |-> lastState]

\* no wait under way; seen lists the deployment statuses the API has answered
\* to the polls of the wait, "" standing for an answer without a Source
NoWait ==
    [kind |-> "none", phase |-> "none", elapsed |-> 0, wait |-> 0, polls |-> 0,
     firstAt |-> 0, lastState |-> "", result |-> NIL, err |-> NIL, seen |-> <<>>]

\* a wait entered: WaitForStateContext first sleeps conf.Delay
StartWait(kind) == [NoWait EXCEPT !.kind = kind, !.phase = "delay"]

\* how WaitForStateContext takes the result of one Refresh: an error ends the
\* wait whatever state comes with it
Classify(conf, rr) ==
    IF rr.err # NIL THEN "error"
    ELSE IF rr.state \in conf.Target THEN "done"
    ELSE IF rr.state \in conf.Pending THEN "pending"
    ELSE "unexpected"

\* the pause before the next Refresh: 100ms, doubled each round, at most 10s
NextPause(wait) ==
    LET doubled == 2 * (IF wait = 0 THEN 1 ELSE wait)
    IN  IF doubled > 100 THEN 100 ELSE doubled

\* WaitForStateContext after a Refresh that was entered at w.elapsed, took dur
\* and returned rr; late tells that the timeout fired while it was in flight
AfterRefresh(conf, wt, rr, dur, late) ==
    LET cls == Classify(conf, rr)
        at == wt.elapsed + dur
        seen == [wt EXCEPT !.polls = @ + 1,
                           !.firstAt = IF wt.polls = 0 THEN wt.elapsed ELSE @,
                           !.elapsed = at,
                           !.lastState = rr.state]
        done(result, err) == [seen EXCEPT !.phase = "done", !.result = result, !.err = err]
    IN  IF late
        THEN IF cls = "done"
             THEN done(rr.result, NIL)
             ELSE done(NIL, Ptr(TimeoutError(
                                  IF cls = "unexpected"
                                  THEN Ptr(UnexpectedStateError(rr.state))
                                  ELSE rr.err,
                                  rr.state)))
        ELSE IF cls = "error" THEN done(rr.result, rr.err)
        ELSE IF cls = "done" THEN done(rr.result, NIL)
        ELSE IF cls = "unexpected"
        THEN done(rr.result, Ptr(UnexpectedStateError(rr.state)))
        ELSE LET pause == NextPause(wt.wait)
             IN  IF at + pause < conf.Timeout
                 THEN [seen EXCEPT !.wait = pause, !.elapsed = at + pause]
                 ELSE [seen EXCEPT !.phase = "done", !.elapsed = conf.Timeout,
                                   !.result = NIL,
                                   !.err = Ptr(TimeoutError(NIL, rr.state))]

\* whether the timeout may have fired by the time a Refresh entered at
\* elapsed returns after dur: at the very instant either side may win
MayBeLate(conf, elapsed, dur, late) ==
    /\ elapsed + dur < conf.Timeout => ~late
    /\ elapsed + dur > conf.Timeout => late

----------------------------------------------------------------------------
(* The server as the operations meet it *)

\* the replies to a POST or PATCH of the resource operations
WriteReplies ==
    { r \in Responses :
        \/ r.fail
        \/ r.fmt = "garbage"
        \/ /\ r.fmt = "json"
           /\ \/ "data" \in DOMAIN r.obj
              \/ "errors" \in DOMAIN r.obj /\ Len(r.obj.errors) = 1 }

\* the statuses the API computes for a source
DeploymentStatuses == {"deploying", "deployed", "disabled", "deleted"}

\* the deployment status of the Source a call returned, "" when it returned none
StatusOf(r) ==
    IF r.source = NIL THEN ""
    ELSE Deref(r.source[1].Attributes.DeploymentStatus, "")

\* a secret key as an API that echoed it would render it
EchoedSecret == "secret-as-stored"

\* the replies to a GET of source id, which the API holds with flag enabled; one
\* of them echoes the secret key
ReadReplies(id, enabled) ==
    { Response(FALSE, StatusOK, "json", DataEnvelope(ServerDoc(id, st, enabled))) :
        st \in DeploymentStatuses }
    \cup { Response(FALSE, StatusOK, "json", DataEnvelope(
               [ServerDoc(id, "deployed", enabled)
                   EXCEPT !.attributes.deployment.s3_secret_key = Ptr(EchoedSecret)])) }
    \cup { Response(FALSE, 404, "json", ErrorEnvelope(<<e>>)) :
             e \in {x \in ErrorEntries : x.title = "not_found"} }
    \cup { Response(FALSE, StatusOK, "garbage", EmptyObject),
           Response(TRUE, 0, "garbage", EmptyObject) }

\* the source as the API holds it after answering request rq with res
Served(rem, rq, res) ==
    IF res.fail THEN rem
    ELSE IF rq.method = MethodPost /\ res.status = StatusCreated
    THEN [exists |-> TRUE, enabled |-> TRUE]
    ELSE IF rq.method = MethodPatch /\ res.status = StatusOK
              /\ "enabled" \in DOMAIN rq.body.data.attributes
    THEN [rem EXCEPT !.enabled = rq.body.data.attributes.enabled]
    ELSE rem

----------------------------------------------------------------------------
(* Diagnostics *)

NoDiags == <<>>

\* diag.Errorf / diag.FromErr: one diagnostic of severity error
ErrorDiag(err) == <<[Severity |-> "error", Summary |-> "error", err |-> err]>>

\* faulty variant of DisabledWarning: the delete reports a plain success
DisabledSilently == <<>>

\* the diagnostics resourceSourceDelete returns on success
DisabledWarning ==
    <<[Severity |-> "warning",
       Summary |-> "Source was disabled because cannot be removed",
       err |-> NIL]>>

\* a nil pointer dereference ends the operation with a panic
PanicDiag == <<[Severity |-> "panic", Summary |-> "nil pointer dereference", err |-> NIL]>>

----------------------------------------------------------------------------
(* The client called directly, as its tests call it *)

NoRemote == [exists |-> FALSE, enabled |-> FALSE]

\* the ResourceData a read of the data source is given: "id" comes from the
\* configuration, the id of the data and "name" are computed by the read
NewData == [id |-> ServerId, Id |-> "", name |-> ""]

\* no helper function applied yet
NoEval == [fn |-> "none", args |-> <<>>, result |-> <<>>]

ClientInit ==
    /\ pc = "start"
    /\ config \in Configs
    /\ src \in Sources
    /\ c = NIL /\ cerr = NIL
    /\ arg = ZeroSource /\ call = "none"
    /\ wire = <<>> /\ resp = NIL /\ ret = NoReturn
    /\ op = "none" /\ d = NewResourceData(1, FALSE, "secret")
    /\ w = NoWait /\ diags = NoDiags /\ remote = NoRemote
    /\ data = NewData /\ eval = NoEval

\* c, err := NewClient(config)
CallNewClient ==
    /\ pc = "start"
    /\ c' = NewClient(config).client
    /\ cerr' = NewClient(config).err
    /\ pc' = IF NewClient(config).err = NIL THEN "ready" ELSE "noclient"
    /\ UNCHANGED <<config, callVars, engineVars, eval>>

\* c.getSourceById(id), answered by res
CallGetSourceById ==
    /\ pc = "ready" /\ src.Id # NIL
    /\ \E res \in Responses :
          /\ wire' = <<getSourceByIdRequest(c[1], src.Id[1])>>
          /\ resp' = Ptr(res)
          /\ ret' = getSourceById(res)
    /\ arg' = src /\ call' = "getSourceById" /\ pc' = "returned"
    /\ UNCHANGED <<clientVars, eval, src, engineVars>>

\* c.createSource(&src), answered by res
CallCreateSource ==
    /\ pc = "ready"
    /\ \E res \in Responses :
          /\ wire' = <<createSourceRequest(c[1], src)>>
          /\ resp' = Ptr(res)
          /\ ret' = createSource(res)
    /\ arg' = src /\ call' = "createSource" /\ pc' = "returned"
    /\ UNCHANGED <<clientVars, eval, src, engineVars>>

\* c.updateSource(&src), answered by res; every caller passes a Source whose Id is set
CallUpdateSource ==
    /\ pc = "ready" /\ src.Id # NIL
    /\ \E res \in Responses :
          /\ wire' = <<updateSourceRequest(c[1], src)>>
          /\ resp' = Ptr(res)
          /\ ret' = updateSource(src, res)
    /\ arg' = src /\ call' = "updateSource" /\ pc' = "returned"
    /\ UNCHANGED <<clientVars, eval, src, engineVars>>

\* c.deleteSource(&src), answered by res: the flag is cleared, then the update is
\* made and its *Source dropped
CallDeleteSource ==
    /\ pc = "ready" /\ src.Id # NIL
    /\ \E res \in Responses :
          LET disabled == deleteSourceDisable(src)
              r == updateSource(disabled, res)
          IN  /\ wire' = <<updateSourceRequest(c[1], disabled)>>
              /\ resp' = Ptr(res)
              /\ ret' = [r EXCEPT !.source = NIL]
              /\ src' = deleteSourceLeaves(disabled, src, r.err)
    /\ arg' = src /\ call' = "deleteSource" /\ pc' = "returned"
    /\ UNCHANGED <<clientVars, eval, engineVars>>

\* the caller goes on to its next call
CallReturned ==
    /\ pc = "returned"
    /\ pc' = "ready"
    /\ arg' = ZeroSource /\ call' = "none"
    /\ wire' = <<>> /\ resp' = NIL /\ ret' = NoReturn
    /\ UNCHANGED <<clientVars, eval, src, engineVars>>

ClientNext ==
    \/ CallNewClient
    \/ CallGetSourceById
    \/ CallCreateSource
    \/ CallUpdateSource
    \/ CallDeleteSource
    \/ CallReturned

ClientSpec == ClientInit /\ [][ClientNext]_vars

----------------------------------------------------------------------------
(* Claims about the client *)

\* the write requests on the wire: those that carry a body
WriteRequests == { i \in 1..Len(wire) : wire[i].body # NIL }

\* the path of a source under the client's base URL
SourcePath(id) == c[1].apiUrl \o "/api/v1/sources/" \o id

\* C1: whatever the server-computed fields of the Source hold in memory, the
\* body of a write request (create, update, disable) has none of the members
\* date_deployed, deployment_status, secure_url_token, allows_upload.
C1_WriteOmitsComputed ==
    \A i \in WriteRequests :
        LET a == wire[i].body.data.attributes
        IN  /\ {"date_deployed", "deployment_status", "secure_url_token"}
                 \cap DOMAIN a = {}
            /\ "allows_upload" \notin DOMAIN a.deployment

\* C1 happens: a write was sent for a Source with all four fields populated
C1_Witness ==
    /\ WriteRequests # {}
    /\ call \in {"createSource", "updateSource", "deleteSource"}
    /\ arg.Attributes.DateDeployed # NIL
    /\ arg.Attributes.DeploymentStatus # NIL
    /\ arg.Attributes.SecureUrlToken # NIL
    /\ arg.Attributes.Deployment.AllowsUpload # NIL

\* a reply of the documented form {"data": Source} that carries an id
IsDataReply(res) ==
    /\ ~res.fail /\ res.fmt = "json"
    /\ "data" \in DOMAIN res.obj /\ "id" \in DOMAIN res.obj.data

\* C2: when create is answered 201 with a body {"data": Source} carrying the
\* server-assigned id X, the Source createSource returns has id X.
C2_CreateReturnsServerId ==
    (/\ call = "createSource" /\ resp # NIL
     /\ IsDataReply(resp[1]) /\ resp[1].status = StatusCreated)
    => /\ ret.err = NIL /\ ret.source # NIL
       /\ ret.source[1].Id = Ptr(resp[1].obj.data.id)

\* C6: disable(source) puts exactly one request on the wire, a PATCH to
\* /api/v1/sources/{id} whose body has enabled=false, and when it succeeds the
\* caller's Source has enabled=false, whatever the flag was before.
C6_DisableIsUpdateWithEnabledFalse ==
    call = "deleteSource"
    => /\ Len(wire) = 1
       /\ wire[1].method = MethodPatch
       /\ wire[1].url = SourcePath(arg.Id[1])
       /\ "enabled" \in DOMAIN wire[1].body.data.attributes
       /\ wire[1].body.data.attributes.enabled = FALSE
       /\ ret.err = NIL => src.Attributes.Enabled = Ptr(FALSE)

\* C6 happens: a disable succeeded on a Source that was enabled
C6_Witness ==
    /\ call = "deleteSource" /\ ret.err = NIL
    /\ arg.Attributes.Enabled = Ptr(TRUE)

\* C7: update(source) sends a PATCH to /api/v1/sources/{id} of the given
\* source, succeeds exactly when the reply's status is 200, and then returns
\* the input Source with every field unchanged, whatever the reply's body held.
C7_UpdateReturnsInput ==
    call = "updateSource"
    => /\ Len(wire) = 1
       /\ wire[1].method = MethodPatch
       /\ wire[1].url = SourcePath(arg.Id[1])
       /\ ret.err = NIL <=> (~resp[1].fail /\ resp[1].status = StatusOK)
       /\ ret.err = NIL => (ret.source = Ptr(arg) /\ src = arg)

\* C7 happens: an update of a Source with server-computed fields in memory
\* succeeded on a reply whose body described another source
C7_Witness ==
    /\ call = "updateSource" /\ ret.err = NIL
    /\ arg.Attributes.DeploymentStatus = Ptr("deployed")
    /\ arg.Attributes.DateDeployed # NIL
    /\ IsDataReply(resp[1]) /\ resp[1].obj.data.id # arg.Id[1]

\* C8: NewClient with an empty access key returns the missing-credential error
\* and no client; with a non-empty key, a client holding that key and no error.
C8_NewClientNeedsKey ==
    pc # "start"
    => IF config.AccessKey = ""
       THEN c = NIL /\ cerr = Ptr(missingAccessKeyError)
       ELSE c # NIL /\ c[1].apiKey = config.AccessKey /\ cerr = NIL

\* C8 happens: construction was refused for an empty key
C8_Witness == pc = "noclient" /\ config.AccessKey = "" /\ c = NIL

\* C9: for a reply that is not 2xx and carries an error envelope, getById fails
\* with an error; it returns neither a Source nor an empty result.
C9_GetFailsOnErrorReply ==
    (/\ call = "getSourceById" /\ ~resp[1].fail
     /\ (resp[1].status < 200 \/ resp[1].status > 299)
     /\ resp[1].fmt = "json" /\ "errors" \in DOMAIN resp[1].obj
     /\ Len(resp[1].obj.errors) > 0)
    => ret.err # NIL

\* the reply to a create or update was not the success status
IsRefusal ==
    /\ call \in {"createSource", "updateSource"} /\ ~resp[1].fail
    /\ resp[1].status # (IF call = "createSource" THEN StatusCreated ELSE StatusOK)

\* the entries of an error envelope, as ApiError holds them, in order
EnvelopeEntries(res) ==
    [i \in 1..Len(res.obj.errors) |-> DecodeErrorEntry(res.obj.errors[i])]

\* a refusal with an error envelope yields an ApiError with its entries in order
RefusalYieldsApiError ==
    (IsRefusal /\ resp[1].fmt = "json" /\ "errors" \in DOMAIN resp[1].obj)
    => /\ ret.err # NIL
       /\ ret.err[1].type = "*ApiError"
       /\ ret.err[1].Errors = EnvelopeEntries(resp[1])

\* C10 as stated: an error envelope yields an ApiError with the entries in the
\* order received; a body that cannot be parsed yields a generic error that
\* carries the raw HTTP status code.
C10_UnparsedCarriesStatus ==
    /\ RefusalYieldsApiError
    /\ (IsRefusal /\ resp[1].fmt # "json")
       => /\ ret.err # NIL
          /\ ret.err[1].type = "errorString"
          /\ ret.err[1].status = resp[1].status

\* C10 amended: an error envelope yields an ApiError with the entries in the
\* order received; a body that cannot be read yields a generic error carrying
\* the raw HTTP status code; a body that is read but is no JSON yields a
\* generic parse error that carries no status code.
C10_ErrorClassification ==
    /\ RefusalYieldsApiError
    /\ (IsRefusal /\ resp[1].fmt = "unreadable")
       => /\ ret.err # NIL
          /\ ret.err[1].type = "errorString"
          /\ ret.err[1].status = resp[1].status
    /\ (IsRefusal /\ resp[1].fmt = "garbage")
       => /\ ret.err # NIL
          /\ ret.err[1].type = "errorString"
          /\ ret.err[1].status = 0

\* C10 happens: a refusal listed two different entries
C10_Witness ==
    /\ IsRefusal /\ resp[1].fmt = "json" /\ "errors" \in DOMAIN resp[1].obj
    /\ Len(resp[1].obj.errors) = 2
    /\ resp[1].obj.errors[1] # resp[1].obj.errors[2]
    /\ ret.err # NIL

----------------------------------------------------------------------------
(* The resource operations *)

Init ==
    /\ pc = "start"
    /\ config \in Configs
    /\ src = ZeroSource
    /\ c = NIL /\ cerr = NIL
    /\ arg = ZeroSource /\ call = "none"
    /\ wire = <<>> /\ resp = NIL /\ ret = NoReturn
    /\ op = "none" /\ d \in ResourceDatas
    /\ w = NoWait /\ diags = NoDiags
    /\ remote = [exists |-> d.Id # "", enabled |-> d.enabled]
    /\ data = NewData /\ eval = NoEval

\* an operation is entered with nothing left of the one before
Enter(name) ==
    /\ op' = name
    /\ arg' = ZeroSource /\ call' = "none"
    /\ wire' = <<>> /\ resp' = NIL /\ ret' = NoReturn

\* resourceSourceCreate, up to its call of makeSourceRequest
Create ==
    /\ pc = "ready" /\ d.Id = ""
    /\ Enter("create")
    /\ LET got == getSourceFromResourceData(d)
       IN  IF got.err # NIL
           THEN /\ diags' = ErrorDiag(got.err) /\ pc' = "done"
                /\ w' = NoWait /\ UNCHANGED src
           ELSE /\ src' = [got.source[1] EXCEPT !.Id = NIL,
                                                !.Attributes.Enabled = NIL,
                                                !.Type = Ptr(TypeSource)]
                /\ w' = StartWait("request") /\ pc' = "request"
                /\ diags' = NoDiags
    /\ UNCHANGED <<clientVars, eval, data, d, remote>>


\* resourceSourceUpdate, up to its call of makeSourceRequest
Update ==
    /\ pc = "ready" /\ d.Id # ""
    /\ Enter("update")
    /\ LET got == getSourceFromResourceData(d)
       IN  IF got.err # NIL
           THEN /\ diags' = ErrorDiag(got.err) /\ pc' = "done"
                /\ w' = NoWait /\ UNCHANGED src
           ELSE /\ src' = got.source[1]
                /\ w' = StartWait("request") /\ pc' = "request"
                /\ diags' = NoDiags
    /\ UNCHANGED <<clientVars, eval, data, d, remote>>

\* the StateChangeConf of the wait under way
ConfOf(kind) == IF kind = "request" THEN requestConf ELSE deployConf(ReadTimeout)

\* WaitForStateContext sleeps conf.Delay before the first Refresh, unless the
\* timeout fires first
WaitDelay ==
    /\ pc \in {"request", "poll"} /\ w.phase = "delay"
    /\ LET conf == ConfOf(w.kind)
       IN  w' = IF conf.Delay < conf.Timeout
                THEN [w EXCEPT !.phase = "refresh", !.elapsed = conf.Delay]
                ELSE [w EXCEPT !.phase = "done", !.elapsed = conf.Timeout,
                               !.err = Ptr(TimeoutError(NIL, ""))]
    /\ UNCHANGED <<pc, clientVars, eval, data, callVars, op, d, diags, remote>>

\* one Refresh of makeSourceRequest: operation() is the create or the update,
\* answered by res after dur
RequestRefresh ==
    /\ pc = "request" /\ w.phase = "refresh"
    /\ \E res \in WriteReplies, dur \in Durations, late \in BOOLEAN :
          LET rq == IF op = "create" THEN createSourceRequest(c[1], src)
                                     ELSE updateSourceRequest(c[1], src)
              r == IF op = "create" THEN createSource(res) ELSE updateSource(src, res)
          IN  /\ MayBeLate(requestConf, w.elapsed, dur, late)
              /\ wire' = Append(wire, rq)
              /\ resp' = Ptr(res)
              /\ ret' = r
              /\ remote' = Served(remote, rq, res)
              /\ w' = AfterRefresh(requestConf, w, requestRefresh(r), dur, late)
    /\ arg' = src
    /\ call' = IF op = "create" THEN "createSource" ELSE "updateSource"
    /\ UNCHANGED <<pc, clientVars, eval, data, src, op, d, diags>>

\* faulty variant of requestFailed: the error of the request is not looked at
requestFailedIgnored(wt) == FALSE

\* if err != nil, after makeSourceRequest
requestFailed(wt) == wt.err # NIL

\* makeSourceRequest has returned (s, err): resourceSourceCreate records the id
\* of s and goes on to read, resourceSourceUpdate goes on to read
RequestReturn ==
    /\ pc = "request" /\ w.phase = "done"
    /\ IF requestFailed(w)
       THEN /\ diags' = ErrorDiag(w.err) /\ pc' = "done" /\ UNCHANGED d
       ELSE IF op = "create" /\ (w.result = NIL \/ w.result[1].Id = NIL)
       THEN /\ diags' = PanicDiag /\ pc' = "done" /\ UNCHANGED d
       ELSE /\ d' = IF op = "create" THEN [d EXCEPT !.Id = w.result[1].Id[1]] ELSE d
            /\ pc' = "read" /\ UNCHANGED diags
    /\ UNCHANGED <<clientVars, eval, data, callVars, op, w, remote>>

\* resourceSourceRead called for the resource
Read ==
    /\ pc = "ready" /\ d.Id # ""
    /\ Enter("read")
    /\ pc' = "read" /\ w' = NoWait /\ diags' = NoDiags
    /\ UNCHANGED <<clientVars, eval, data, src, d, remote>>

\* faulty variant of readWaits: the read waits whatever the flag
readWaitsAlways(rd) == TRUE

\* d.Get("wait_for_deployed").(bool)
readWaits(rd) == rd.wait_for_deployed

\* resourceSourceRead chooses by wait_for_deployed: the wait, or one fetch
ReadChoose ==
    /\ pc = "read"
    /\ IF readWaits(d)
       THEN w' = StartWait("deploy") /\ pc' = "poll"
       ELSE w' = [NoWait EXCEPT !.kind = "fetch"] /\ pc' = "fetch"
    /\ UNCHANGED <<clientVars, eval, data, callVars, op, d, diags, remote>>

\* one Refresh of waitForSourceToBeDeployed: getSourceById answered by res after dur
PollRefresh ==
    /\ pc = "poll" /\ w.phase = "refresh"
    /\ \E res \in ReadReplies(d.Id, remote.enabled), dur \in Durations, late \in BOOLEAN :
          LET conf == deployConf(ReadTimeout)
              r == getSourceById(res)
          IN  /\ MayBeLate(conf, w.elapsed, dur, late)
              /\ wire' = Append(wire, getSourceByIdRequest(c[1], d.Id))
              /\ resp' = Ptr(res)
              /\ ret' = r
              /\ w' = AfterRefresh(conf, [w EXCEPT !.seen = Append(@, StatusOf(r))],
                                   sourceStateRefreshFunc(r), dur, late)
    /\ call' = "getSourceById"
    /\ UNCHANGED <<pc, clientVars, eval, data, src, arg, op, d, diags, remote>>

\* the single call of the refresh function when wait_for_deployed is false
Fetch ==
    /\ pc = "fetch" /\ w.phase = "none"
    /\ \E res \in ReadReplies(d.Id, remote.enabled) :
          LET r == getSourceById(res)
              rr == sourceStateRefreshFunc(r)
          IN  /\ wire' = Append(wire, getSourceByIdRequest(c[1], d.Id))
              /\ resp' = Ptr(res)
              /\ ret' = r
              /\ w' = [w EXCEPT !.phase = "done", !.polls = 1, !.lastState = rr.state,
                                !.result = rr.result, !.err = rr.err,
                                !.seen = Append(@, StatusOf(r))]
    /\ call' = "getSourceById"
    /\ UNCHANGED <<pc, clientVars, eval, data, src, arg, op, d, diags, remote>>

\* faulty variant of readInto: the secret key is stored as well
readIntoEchoing(rd, source) ==
    [rd EXCEPT !.Id = Deref(source.Id, ""),
               !.name = source.Attributes.Name,
               !.type = Deref(source.Type, ""),
               !.deployment_status = Deref(source.Attributes.DeploymentStatus, ""),
               !.date_deployed = Deref(source.Attributes.DateDeployed, 0),
               !.enabled = Deref(source.Attributes.Enabled, FALSE),
               !.secure_url_token = Deref(source.Attributes.SecureUrlToken, ""),
               !.deployment.allows_upload =
                    Deref(source.Attributes.Deployment.AllowsUpload, FALSE),
               !.deployment.s3_access_key =
                    Deref(source.Attributes.Deployment.S3AccessKey, ""),
               !.deployment.s3_secret_key =
                    Deref(source.Attributes.Deployment.S3SecretKey, ""),
               !.deployment.type = source.Attributes.Deployment.Type]

\* what resourceSourceRead stores from source; the secret key is left as it was
readInto(rd, source) ==
    [rd EXCEPT !.Id = Deref(source.Id, ""),
               !.name = source.Attributes.Name,
               !.type = Deref(source.Type, ""),
               !.deployment_status = Deref(source.Attributes.DeploymentStatus, ""),
               !.date_deployed = Deref(source.Attributes.DateDeployed, 0),
               !.enabled = Deref(source.Attributes.Enabled, FALSE),
               !.secure_url_token = Deref(source.Attributes.SecureUrlToken, ""),
               !.deployment.allows_upload =
                    Deref(source.Attributes.Deployment.AllowsUpload, FALSE),
               !.deployment.s3_access_key =
                    Deref(source.Attributes.Deployment.S3AccessKey, ""),
               !.deployment.type = source.Attributes.Deployment.Type]

\* resourceSourceRead after the source was obtained, or was not
ReadFinish ==
    /\ pc \in {"poll", "fetch"} /\ w.phase = "done"
    /\ IF w.err # NIL
       THEN diags' = ErrorDiag(w.err) /\ UNCHANGED d
       ELSE IF w.result = NIL \/ w.result[1].Id = NIL
       THEN diags' = PanicDiag /\ UNCHANGED d
       ELSE d' = readInto(d, w.result[1]) /\ diags' = NoDiags
    /\ pc' = "done"
    /\ UNCHANGED <<clientVars, eval, data, callVars, op, w, remote>>

\* faulty variant of deleteRequests: the source is fetched after the update
deleteRequestsPolling(cl, disabled) ==
    <<updateSourceRequest(cl, disabled), getSourceByIdRequest(cl, disabled.Id[1])>>

\* the requests resourceSourceDelete sends: client.deleteSource is called
\* directly, once, and makes the one request of updateSource
deleteRequests(cl, disabled) == <<updateSourceRequest(cl, disabled)>>

\* resourceSourceDelete: the source is built, disabled through the client, and
\* the warning returned
Delete ==
    /\ pc = "ready" /\ d.Id # ""
    /\ op' = "delete"
    /\ LET got == getSourceFromResourceData(d)
       IN  IF got.err # NIL
           THEN /\ diags' = ErrorDiag(got.err)
                /\ arg' = ZeroSource /\ call' = "none"
                /\ wire' = <<>> /\ resp' = NIL /\ ret' = NoReturn
                /\ UNCHANGED <<src, remote>>
           ELSE /\ arg' = got.source[1] /\ call' = "deleteSource"
                /\ \E res \in WriteReplies :
                      LET disabled == deleteSourceDisable(got.source[1])
                          rq == updateSourceRequest(c[1], disabled)
                          r == updateSource(disabled, res)
                      IN  /\ src' = deleteSourceLeaves(disabled, got.source[1], r.err)
                          /\ wire' = deleteRequests(c[1], disabled)
                          /\ resp' = Ptr(res)
                          /\ ret' = [r EXCEPT !.source = NIL]
                          /\ diags' = IF r.err # NIL THEN ErrorDiag(r.err)
                                                    ELSE DisabledWarning
                          /\ remote' = Served(remote, rq, res)
    /\ pc' = "done" /\ w' = NoWait
    /\ UNCHANGED <<clientVars, eval, data, d>>

\* the ReadContext of the data source: the source of the configured id is
\* fetched, once, and its name and the id stored
DataRead ==
    /\ pc = "ready"
    /\ op' = "dataread"
    /\ \E res \in ReadReplies(data.id, remote.enabled) :
          LET r == getSourceById(res)
          IN  /\ wire' = <<getSourceByIdRequest(c[1], data.id)>>
              /\ resp' = Ptr(res)
              /\ ret' = r
              /\ IF r.err # NIL
                 THEN diags' = ErrorDiag(r.err) /\ UNCHANGED data
                 ELSE IF r.source = NIL
                 THEN diags' = PanicDiag /\ UNCHANGED data
                 ELSE /\ data' = [data EXCEPT !.name = r.source[1].Attributes.Name,
                                              !.Id = data.id]
                      /\ diags' = NoDiags
    /\ arg' = ZeroSource /\ call' = "getSourceById"
    /\ pc' = "done" /\ w' = NoWait
    /\ UNCHANGED <<clientVars, eval, src, d, remote>>

\* the operation has returned; the next one may be called, unless the process
\* has panicked or the resource was given up
Continue ==
    /\ pc = "done"
    /\ diags # PanicDiag
    /\ ~(op = "delete" /\ diags = DisabledWarning)
    /\ pc' = "ready" /\ op' = "none" /\ w' = NoWait /\ diags' = NoDiags
    /\ src' = ZeroSource /\ arg' = ZeroSource /\ call' = "none"
    /\ wire' = <<>> /\ resp' = NIL /\ ret' = NoReturn
    /\ data' = NewData
    /\ UNCHANGED <<clientVars, eval, d, remote>>

Next ==
    \/ CallNewClient
    \/ Create
    \/ Update
    \/ WaitDelay
    \/ RequestRefresh
    \/ RequestReturn
    \/ Read
    \/ ReadChoose
    \/ PollRefresh
    \/ Fetch
    \/ ReadFinish
    \/ Delete
    \/ DataRead
    \/ Continue

Spec == Init /\ [][Next]_vars

----------------------------------------------------------------------------
(* Claims about the waits of the resource operations *)

\* the status the last getById held, "" when it returned no Source
ObservedStatus ==
    IF ret.source = NIL THEN ""
    ELSE Deref(ret.source[1].Attributes.DeploymentStatus, "")

\* C3: deployed, disabled and deleted are all terminal for deployment
\* convergence: once a poll made before the deadline observes one of them, the
\* poll loop has stopped and returns that Source without an error.
C3_TerminalStatusesReturnSource ==
    (/\ pc = "poll" /\ w.polls > 0 /\ w.elapsed < ReadTimeout
     /\ ret.err = NIL
     /\ ObservedStatus \in {"deployed", "disabled", "deleted"})
    => /\ w.phase = "done"
       /\ w.err = NIL
       /\ w.result = ret.source

\* the reply is the API's refusal of an origin access key
IsAccessKeyRefusal(res) ==
    /\ ~res.fail /\ (res.status < 200 \/ res.status > 299)
    /\ res.fmt = "json" /\ "errors" \in DOMAIN res.obj
    /\ \E i \in 1..Len(res.obj.errors) :
          res.obj.errors[i].title = InvalidAwsAccessKeyError

\* C4: when the create or update fails with the invalid-access-key error, the
\* retry wrapper moves to the retry state and invokes the operation again
\* after the delay: it does not return while its timeout has not elapsed and
\* the last answer was that refusal (so two such failures and then a success
\* end in success after three invocations).
C4_AccessKeyRefusalIsRetried ==
    ~(/\ pc = "request" /\ w.phase = "done" /\ w.elapsed < RequestTimeout
      /\ resp # NIL /\ IsAccessKeyRefusal(resp[1]))

\* the wrapped operation failed with an error that is not recognized as the
\* invalid-access-key error, and the wrapper has returned
WrapperEndedOnOtherError ==
    /\ pc = "request" /\ w.phase = "done" /\ w.polls > 0
    /\ ret.err # NIL
    /\ ~isImgixApiErr(ret.err[1], InvalidAwsAccessKeyError)

----------------------------------------------------------------------------
(* Claims about the deployment poller *)

\* the requests of the operation under way that were GETs of the source
Polls == { i \in 1..Len(wire) : wire[i].method = MethodGet }

\* the statuses answered so far are n >= 0 times deploying and then last
SeenDeployingThen(last) ==
    /\ Len(w.seen) > 0
    /\ w.seen[Len(w.seen)] = last
    /\ \A i \in 1..(Len(w.seen) - 1) : w.seen[i] = "deploying"

\* C11: when the API answers n >= 0 times deploying and then deployed, the
\* poller returns the Source answered with status deployed and has made
\* exactly n+1 polls of getSourceById; once deployed was observed the wait is
\* over, so no poll follows it.
C11_DeployedEndsAfterNPlusOnePolls ==
    /\ (pc = "poll" /\ SeenDeployingThen("deployed"))
       => /\ w.phase = "done"
          /\ w.err = NIL
          /\ w.result = ret.source
          /\ StatusOf(Return(w.result, NIL)) = "deployed"
          /\ Cardinality(Polls) = Len(w.seen)
          /\ w.polls = Len(w.seen)
    /\ pc = "poll" => \A i \in 1..(Len(w.seen) - 1) : w.seen[i] # "deployed"

\* C11 happens: deploying, deploying, deployed was answered to three polls
C11_Witness ==
    /\ pc = "poll" /\ w.phase = "done"
    /\ w.seen = <<"deploying", "deploying", "deployed">>
    /\ Cardinality(Polls) = 3
    /\ w.err = NIL


\* every status answered so far is deploying
SeenOnlyDeploying ==
    /\ Len(w.seen) > 0
    /\ \A i \in 1..Len(w.seen) : w.seen[i] = "deploying"

\* C12: when every poll is answered deploying, the poller goes on no longer
\* than its timeout: it makes no poll once the timeout has elapsed, ends no
\* earlier than the timeout, and then fails with a timeout error whose last
\* state is deploying, returning no Source.
C12_OnlyDeployingEndsInTimeout ==
    /\ (pc = "poll" /\ w.phase = "refresh") => w.elapsed < ReadTimeout
    /\ (pc = "poll" /\ w.phase = "done" /\ SeenOnlyDeploying)
       => /\ w.elapsed >= ReadTimeout
          /\ w.err = Ptr(TimeoutError(NIL, "deploying"))
          /\ w.result = NIL

\* C12 happens: the wait ended after several polls all answered deploying
C12_Witness ==
    /\ pc = "poll" /\ w.phase = "done"
    /\ SeenOnlyDeploying /\ Len(w.seen) >= 3
    /\ w.err # NIL /\ w.err[1].type = "TimeoutError"


----------------------------------------------------------------------------
(* Claims about errors on their way to the caller *)

\* C13: when the timeout of the retry wrapper elapses while the create or
\* update is still being refused for the origin access key, the error the
\* wrapper returns is that last API error itself, not a timeout error.
C13_TimeoutReturnsLastApiError ==
    (/\ pc = "request" /\ w.phase = "done" /\ w.elapsed >= RequestTimeout
     /\ resp # NIL /\ IsAccessKeyRefusal(resp[1]))
    => w.err = ret.err


----------------------------------------------------------------------------
(* Claims about the read and the delete of the resource *)

\* C14: a read takes its path from the wait_for_deployed flag alone. With the
\* flag false it makes exactly one getSourceById, at once and never a second,
\* and returns the Source it got whatever its status; with the flag true it
\* runs the deployment wait, whose first poll follows the wait's delay.
C14_ReadPathFollowsFlag ==
    /\ w.kind = "fetch" => ~d.wait_for_deployed
    /\ w.kind = "deploy" => d.wait_for_deployed
    /\ pc = "fetch" => w.kind = "fetch"
    /\ pc = "poll" => w.kind = "deploy"
    /\ w.kind = "fetch"
       => /\ Cardinality(Polls) <= 1
          /\ w.elapsed = 0
          /\ w.phase = "done"
             => /\ Cardinality(Polls) = 1 /\ w.polls = 1
                /\ ret.source # NIL => (w.err = NIL /\ w.result = ret.source)
    /\ (w.kind = "deploy" /\ w.polls > 0) => w.firstAt = DeployDelay

\* C14 happens: with the flag false one fetch returned a Source still deploying
C14_Witness ==
    /\ pc = "done" /\ op = "read" /\ w.kind = "fetch"
    /\ ~d.wait_for_deployed
    /\ StatusOf(ret) = "deploying"
    /\ diags = NoDiags /\ d.deployment_status = "deploying"


\* C15: the delete calls the client's deleteSource; when that succeeds the
\* delete returns exactly one diagnostic, of severity warning, and never an
\* empty list; when it fails the delete returns the error and no warning.
C15_DeleteWarnsOnSuccess ==
    (op = "delete" /\ pc = "done")
    => /\ call = "deleteSource"
       /\ Len(diags) = 1
       /\ ret.err = NIL => diags[1].Severity = "warning"
       /\ ret.err # NIL => (diags[1].Severity = "error" /\ diags[1].err = ret.err)

\* C15 happens: the API accepted the update that disables, and the delete warned
C15_Witness ==
    /\ op = "delete" /\ pc = "done" /\ call = "deleteSource"
    /\ ret.err = NIL /\ resp[1].status = StatusOK
    /\ diags = DisabledWarning


----------------------------------------------------------------------------
(* The helper functions, applied to sample values *)

\* strings.TrimRight(s, cutset) for a cutset of one character
RECURSIVE TrimRight(_, _)
TrimRight(s, ch) ==
    IF Len(s) > 0 /\ SubSeq(s, Len(s), Len(s)) = ch
    THEN TrimRight(SubSeq(s, 1, Len(s) - 1), ch)
    ELSE s

\* strings.HasSuffix
HasSuffix(s, suffix) ==
    /\ Len(s) >= Len(suffix)
    /\ SubSeq(s, Len(s) - Len(suffix) + 1, Len(s)) = suffix

\* the loop of ApiError.String: msg after the entries were appended to it
RECURSIVE StringLoop(_, _)
StringLoop(entries, msg) ==
    IF entries = <<>> THEN msg
    ELSE StringLoop(Tail(entries),
                    msg \o "status: " \o Head(entries).Status
                        \o ", details: " \o Head(entries).Detail \o "\n")

\* faulty variant of String: the entries are not separated
StringUnseparated(er) ==
    TrimRight(StringLoop(er.Errors, ""), " ")

\* ApiError.String, which ApiError.Error returns
String(er) == TrimRight(StringLoop(er.Errors, ""), "\n")

\* the reserved root domain of validateSubdomain
RootDomain == "imgix.net"

\* faulty variant of validateSubdomain: only a whole label is looked for
validateSubdomainLabel(domain) ==
    IF HasSuffix(domain, "." \o RootDomain)
    THEN ErrorDiag(Ptr(ErrorString(
            "Subdomains can't contain imgix.net suffix. Invalid record: " \o domain, 0)))
    ELSE NoDiags

\* validateSubdomain
validateSubdomain(domain) ==
    IF HasSuffix(domain, RootDomain)
    THEN ErrorDiag(Ptr(ErrorString(
            "Subdomains can't contain imgix.net suffix. Invalid record: " \o domain, 0)))
    ELSE NoDiags

\* entries of the Errors of an ApiError
SampleEntries ==
    { [Status |-> "400", Title |-> InvalidAwsAccessKeyError, Detail |-> "invalid key"],
      [Status |-> "404", Title |-> "not_found", Detail |-> "no such source"],
      [Status |-> "error_1", Title |-> "example_imgix_api_err", Detail |-> "error 1"],
      [Status |-> "error_2", Title |-> "", Detail |-> ""],
      [Status |-> "500", Title |-> "server_error", Detail |-> "try again\n"],
      [Status |-> "422", Title |-> InvalidAwsAccessKeyError,
       Detail |-> "line one\nline two"] }

\* the lists of at most n sample entries
RECURSIVE SampleLists(_)
SampleLists(n) ==
    IF n = 0 THEN {<<>>}
    ELSE LET shorter == SampleLists(n - 1)
         IN  shorter \cup
             { Append(l, e) : l \in {s \in shorter : Len(s) = n - 1}, e \in SampleEntries }

\* the errors handed to isImgixApiErr: plain ones, ApiError values as the
\* tests build them, and pointers to ApiError as serializeApiError builds them
SampleErrors ==
    { ErrorString(m, 0) : m \in {"not_imgix_error", InvalidAwsAccessKeyError} }
    \cup { ApiErrorValue(es) : es \in SampleLists(MaxErrors) }
    \cup { ApiErrorPointer(es) : es \in SampleLists(MaxErrors) }

\* the titles asked for
SampleTitles ==
    { InvalidAwsAccessKeyError, "not_found", "example_imgix_api_err",
      "invalid_error", "not_imgix_error", "" }

\* the values handed to validateSubdomain
SampleDomains ==
    { "test", "test-2", "test.imgix.net", "test-2.imgix.net",
      "", "net", "imgix.net", "testimgix.net", "test.imgix.net.", "test.imgix.ne",
      "imgix.net.example.com", "test.imgix.com", "a.b.imgix.net", "imgix.network" }

\* the helpers take part in no call and no operation
HelperInit ==
    /\ pc = "start"
    /\ config \in Configs
    /\ src = ZeroSource
    /\ c = NIL /\ cerr = NIL
    /\ arg = ZeroSource /\ call = "none"
    /\ wire = <<>> /\ resp = NIL /\ ret = NoReturn
    /\ op = "none" /\ d = NewResourceData(1, FALSE, "secret")
    /\ w = NoWait /\ diags = NoDiags /\ remote = NoRemote
    /\ data = NewData /\ eval = NoEval

\* isImgixApiErr(err, title)
EvalIsImgixApiErr ==
    /\ pc = "start"
    /\ \E err \in SampleErrors, title \in SampleTitles :
          eval' = [fn |-> "isImgixApiErr", args |-> <<err, title>>,
                   result |-> isImgixApiErr(err, title)]
    /\ pc' = "evaluated"
    /\ UNCHANGED <<clientVars, callVars, engineVars>>

\* er.String()
EvalString ==
    /\ pc = "start"
    /\ \E es \in SampleLists(MaxErrors) :
          eval' = [fn |-> "String", args |-> <<ApiErrorValue(es)>>,
                   result |-> String(ApiErrorValue(es))]
    /\ pc' = "evaluated"
    /\ UNCHANGED <<clientVars, callVars, engineVars>>

\* validateSubdomain(domain, nil)
EvalValidateSubdomain ==
    /\ pc = "start"
    /\ \E domain \in SampleDomains :
          eval' = [fn |-> "validateSubdomain", args |-> <<domain>>,
                   result |-> validateSubdomain(domain)]
    /\ pc' = "evaluated"
    /\ UNCHANGED <<clientVars, callVars, engineVars>>

HelperNext ==
    \/ EvalIsImgixApiErr
    \/ EvalString
    \/ EvalValidateSubdomain

HelperSpec == HelperInit /\ [][HelperNext]_vars


----------------------------------------------------------------------------
(* Claims about the helper functions *)

\* the error is an ApiError, held by value or through a pointer, one of whose
\* entries has the title
IsApiErrorTitled(err, title) ==
    /\ err.type \in {"ApiError", "*ApiError"}
    /\ \E i \in 1..Len(err.Errors) : err.Errors[i].Title = title

\* C16: isImgixApiErr(err, title) is true exactly when err is an ApiError with
\* at least one entry whose title is the given title; it is false for an
\* error that is no ApiError even when its message is the title, and false
\* for an ApiError without such an entry.
C16_TrueIffApiErrorWithTitle ==
    eval.fn = "isImgixApiErr"
    => (eval.result <=> IsApiErrorTitled(eval.args[1], eval.args[2]))


\* the line of one entry
EntryLine(e) == "status: " \o e.Status \o ", details: " \o e.Detail

\* the lines of the entries, in order, with one newline between two of them
RECURSIVE JoinedLines(_)
JoinedLines(entries) ==
    IF entries = <<>> THEN ""
    ELSE IF Len(entries) = 1 THEN EntryLine(entries[1])
    ELSE EntryLine(Head(entries)) \o "\n" \o JoinedLines(Tail(entries))

\* the last character of s is a newline
EndsWithNewline(s) == Len(s) > 0 /\ SubSeq(s, Len(s), Len(s)) = "\n"

\* C17 as stated: the message of an ApiError is the lines of its entries, one
\* per entry and in entry order, each "status: <status>, details: <detail>",
\* joined by single newlines with none after the last line.
C17_MessageIsJoinedLines ==
    eval.fn = "String"
    => eval.result = JoinedLines(eval.args[1].Errors)

\* C17 amended: the message is those joined lines with every newline at
\* their end removed: it is the joined lines themselves unless the last
\* entry's detail ends with a newline, and then it is them without the
\* newlines that end that detail; the message never ends with a newline.
C17_MessageIsJoinedLinesTrimmed ==
    eval.fn = "String"
    => LET joined == JoinedLines(eval.args[1].Errors)
           msg == eval.result
       IN  /\ ~EndsWithNewline(msg)
           /\ Len(msg) <= Len(joined)
           /\ SubSeq(joined, 1, Len(msg)) = msg
           /\ \A i \in (Len(msg) + 1)..Len(joined) : SubSeq(joined, i, i) = "\n"
           /\ ~EndsWithNewline(joined) => msg = joined

\* C17 happens: two entries, the detail of the second ending with a newline
C17_Witness ==
    /\ eval.fn = "String"
    /\ Len(eval.args[1].Errors) = 2
    /\ EndsWithNewline(eval.args[1].Errors[2].Detail)
    /\ eval.result # JoinedLines(eval.args[1].Errors)

\* the domain is some prefix followed by the root domain
EndsWithRootDomain(domain) ==
    \E k \in 0..Len(domain) : domain = SubSeq(domain, 1, k) \o RootDomain

\* C18: validateSubdomain rejects a value exactly when it ends with
\* imgix.net: "test" and "test-2" are accepted, "test.imgix.net" and
\* "test-2.imgix.net" are rejected.
C18_RejectsIffRootSuffix ==
    eval.fn = "validateSubdomain"
    => LET domain == eval.args[1]
           rejected == eval.result # NoDiags
       IN  /\ rejected <=> EndsWithRootDomain(domain)
           /\ rejected => (Len(eval.result) = 1 /\ eval.result[1].Severity = "error")
           /\ domain \in {"test", "test-2"} => ~rejected
           /\ domain \in {"test.imgix.net", "test-2.imgix.net"} => rejected

\* C18 happens: a subdomain given with the root domain was rejected
C18_Witness ==
    /\ eval.fn = "validateSubdomain"
    /\ eval.args = <<"test-2.imgix.net">>
    /\ Len(eval.result) = 1


----------------------------------------------------------------------------
(* Claims about failures of the exchange *)

\* the exchange of the last call failed: in transport, by a status that is
\* not a success, or by a body the call reads and cannot decode
ExchangeFailed ==
    /\ resp # NIL
    /\ \/ resp[1].fail
       \/ resp[1].status < 200
       \/ resp[1].status > 299
       \/ call \in {"getSourceById", "createSource"} /\ resp[1].fmt # "json"

\* C19: every failure inside a client call surfaces as an error: a call whose
\* exchange failed in transport, by a non-success status or by an undecodable
\* body (that of a 201 create response included) returns an error, never a
\* success.
C19_FailedExchangeReturnsError ==
    (pc = "returned" /\ ExchangeFailed) => ret.err # NIL


----------------------------------------------------------------------------
(* Claims about the life of the resource *)

\* the delete of the resource has returned after the API accepted the update
DeleteSucceeded ==
    /\ op = "delete" /\ pc = "done" /\ call = "deleteSource"
    /\ ret.err = NIL

\* C21: nothing is ever removed: whatever operations are run, every request
\* sent is a GET, a POST or a PATCH, never a DELETE; the source of a resource
\* that has an id exists on the API, and after a successful delete it still
\* exists there, with enabled = false.
C21_NoPhysicalDeletion ==
    /\ \A i \in 1..Len(wire) : wire[i].method \in {"GET", "POST", "PATCH"}
    /\ d.Id # "" => remote.exists
    /\ DeleteSucceeded => (remote.exists /\ remote.enabled = FALSE)

\* C21 happens: a source that was enabled has been deleted successfully
C21_Witness ==
    /\ DeleteSucceeded
    /\ d.enabled = TRUE
    /\ Len(wire) = 1 /\ wire[1].method = "PATCH"
    /\ remote = [exists |-> TRUE, enabled |-> FALSE]


----------------------------------------------------------------------------
(* One client used by two callers at a time *)

\* the callers, each converging a resource of its own through the one client
Callers == {"caller1", "caller2"}

\* the client calls a caller may make
ClientCalls == {"getSourceById", "createSource", "updateSource", "deleteSource"}

\* the Source a caller holds for its resource
SourceOf(k) ==
    [Id |-> Ptr(IF k = "caller1" THEN "601430223753592c4e822e2c" ELSE ServerId),
     Type |-> Ptr(TypeSource),
     Attributes |->
        [DateDeployed |-> NIL, DeploymentStatus |-> NIL, Enabled |-> Ptr(TRUE),
         Name |-> k, SecureUrlToken |-> NIL,
         Deployment |->
            [AllowsUpload |-> NIL, S3AccessKey |-> Ptr("AKIABCDEFGHI"),
             S3SecretKey |-> Ptr("secret"), Type |-> "s3"]]]

\* the replies a caller may get
SharedReplies ==
    { Response(FALSE, StatusOK, "json", DataEnvelope(ServerDoc(ServerId, "deploying", TRUE))),
      Response(FALSE, StatusCreated, "json", ServerDoc(ServerId, "deploying", TRUE)),
      Response(FALSE, 404, "json",
               ErrorEnvelope(<<[status |-> "404", title |-> "not_found",
                                detail |-> "no such source"]>>)),
      Response(TRUE, 0, "garbage", EmptyObject) }

\* faulty variant of clientAfter: the call leaves its endpoint in the client
clientAfterRebased(cl, fn) == [cl EXCEPT !.apiUrl = cl.apiUrl \o "/" \o fn]

\* the client after one of its methods was entered: none of them assigns to
\* c.apiKey or c.apiUrl
clientAfter(cl, fn) == cl

\* the request the call fn makes for source through client cl
requestOf(cl, fn, source) ==
    IF fn = "getSourceById" THEN getSourceByIdRequest(cl, source.Id[1])
    ELSE IF fn = "createSource" THEN createSourceRequest(cl, source)
    ELSE IF fn = "updateSource" THEN updateSourceRequest(cl, source)
    ELSE updateSourceRequest(cl, deleteSourceDisable(source))

\* what the call fn returns for source when answered by res
resultOf(fn, source, res) ==
    IF fn = "getSourceById" THEN getSourceById(res)
    ELSE IF fn = "createSource" THEN createSource(res)
    ELSE IF fn = "updateSource" THEN updateSource(source, res)
    ELSE [updateSource(deleteSourceDisable(source), res) EXCEPT !.source = NIL]

\* a caller that has made no call
IdleCall == [phase |-> "idle", fn |-> "none", request |-> <<>>, reply |-> NIL,
             ret |-> NoReturn]

SharedInit ==
    /\ pc = "start"
    /\ config \in Configs
    /\ src = ZeroSource
    /\ c = NIL /\ cerr = NIL
    /\ arg = ZeroSource /\ call = "none"
    /\ wire = <<>> /\ resp = NIL /\ ret = NoReturn
    /\ op = "none" /\ d = NewResourceData(1, FALSE, "secret")
    /\ w = NoWait /\ diags = NoDiags /\ remote = NoRemote
    /\ data = NewData
    /\ eval = [k \in Callers |-> IdleCall]

\* caller k enters a client call: the request is built from the client's
\* fields and sent
SharedSend(k) ==
    /\ pc = "ready" /\ eval[k].phase = "idle"
    /\ \E fn \in ClientCalls :
          /\ eval' = [eval EXCEPT ![k] =
                        [IdleCall EXCEPT !.phase = "sent", !.fn = fn,
                                         !.request = <<requestOf(c[1], fn, SourceOf(k))>>]]
          /\ c' = Ptr(clientAfter(c[1], fn))
          /\ wire' = Append(wire, requestOf(c[1], fn, SourceOf(k)))
    /\ UNCHANGED <<pc, config, cerr, src, arg, call, resp, ret, engineVars>>

\* the reply to caller k's request arrives and its call returns
SharedReturn(k) ==
    /\ pc = "ready" /\ eval[k].phase = "sent"
    /\ \E res \in SharedReplies :
          eval' = [eval EXCEPT ![k].phase = "returned",
                               ![k].reply = Ptr(res),
                               ![k].ret = resultOf(eval[k].fn, SourceOf(k), res)]
    /\ UNCHANGED <<pc, clientVars, callVars, engineVars>>

SharedNext ==
    \/ CallNewClient
    \/ \E k \in Callers : SharedSend(k)
    \/ \E k \in Callers : SharedReturn(k)

SharedSpec == SharedInit /\ [][SharedNext]_vars

\* the client as NewClient made it from the Config
ClientAsConstructed == NewClient(config).client

\* C22: the client holds only what it was constructed with: no call changes
\* its base URL or its key, so of two callers using it at the same time each
\* sends the request, and gets the result, it would have alone; every request
\* carries Authorization: Bearer <the AccessKey of the Config>.
C22_ClientIsImmutable ==
    /\ pc = "ready" => c = ClientAsConstructed
    /\ \A i \in 1..Len(wire) :
          /\ wire[i].Authorization = "Bearer " \o config.AccessKey
          /\ wire[i].ContentType = "application/json"
    /\ \A k \in Callers :
          /\ eval[k].phase # "idle"
             => eval[k].request =
                  <<requestOf(ClientAsConstructed[1], eval[k].fn, SourceOf(k))>>
          /\ eval[k].phase = "returned"
             => eval[k].ret = resultOf(eval[k].fn, SourceOf(k), eval[k].reply[1])

\* C22 happens: both callers have a call under way at the same time
C22_Witness ==
    /\ eval["caller1"].phase = "sent" /\ eval["caller2"].phase = "sent"
    /\ eval["caller1"].fn = "deleteSource" /\ eval["caller2"].fn = "createSource"
    /\ Len(wire) = 2


\* C23: between operations the resource has an id exactly when its source has
\* been created on the API: the create request carries no id, the id is
\* recorded after a successful create, stays unset when the create fails, and
\* is not changed by update, read or delete.
C23_IdSetIffCreated ==
    /\ \A i \in 1..Len(wire) :
          wire[i].method = "POST" => "id" \notin DOMAIN wire[i].body.data
    /\ pc \in {"ready", "done"} => (d.Id # "" <=> remote.exists)

\* C24: when a create or update is answered with a non-success status and an
\* error envelope holding an entry titled aws_access_key, the error the client
\* returns passes isImgixApiErr with InvalidAwsAccessKeyError, so the Refresh
\* of the retry wrapper reports the state retry, not error.
C24_AccessKeyRefusalReportsRetry ==
    (/\ pc = "request" /\ w.polls > 0
     /\ resp # NIL /\ IsAccessKeyRefusal(resp[1]))
    => /\ ret.err # NIL
       /\ isImgixApiErr(ret.err[1], InvalidAwsAccessKeyError)
       /\ w.lastState = "retry"


----------------------------------------------------------------------------
(* Claims about the order of the requests of an operation *)

\* the requests of the operation under way that were POSTs or PATCHes
Mutations == { i \in 1..Len(wire) : wire[i].method \in {"POST", "PATCH"} }

\* C25: in create and update the mutating call comes first and getSourceById
\* is polled only after it has succeeded: every GET follows the one POST or
\* PATCH, the read is entered only with the mutation's success in hand, and
\* when the mutation fails the operation returns the error with no GET sent
\* and, for create, no id recorded.
C25_MutationPrecedesPolling ==
    op \in {"create", "update"}
    => /\ \A i \in Polls : \E j \in Mutations : j < i
       /\ pc = "read" => (Cardinality(Mutations) = 1 /\ ret.err = NIL /\ w.err = NIL)
       /\ pc \in {"poll", "fetch"} => Cardinality(Mutations) = 1
       /\ Polls # {} => (w.kind \in {"deploy", "fetch"} /\ d.Id # "")
       /\ (pc = "done" /\ w.kind = "request")
          => /\ Polls = {}
             /\ Len(diags) = 1 /\ diags[1].Severity \in {"error", "panic"}
             /\ op = "create" => d.Id = ""

\* C25 happens: the update was refused and the operation returned its error
\* without a poll
C25_Witness ==
    /\ op = "update" /\ pc = "done" /\ w.kind = "request"
    /\ ret.err # NIL /\ diags = ErrorDiag(w.err)
    /\ Cardinality(Mutations) = 1 /\ Polls = {}


----------------------------------------------------------------------------
(* Termination of the retry wrapper *)

\* the operations keep running: a step that can be taken is taken in the end
\* (the process is scheduled, and an HTTP exchange takes a finite time)
LiveSpec == Spec /\ WF_vars(Next)

\* C26: the retry wrapper always ends. It calls the operation only while its
\* own timeout of 10 seconds has not elapsed, hence a bounded number of times,
\* it returns an error when the last answer was the access-key refusal, and
\* once entered it is left again: it never retries for ever.
C26_RetryWrapperTerminates ==
    /\ [](w.kind = "request"
          => /\ w.polls <= RequestTimeout - RequestDelay
             /\ w.phase = "refresh" => w.elapsed < RequestTimeout
             /\ (w.phase = "done" /\ w.polls > 0 /\ IsAccessKeyRefusal(resp[1]))
                => w.err # NIL)
    /\ (pc = "request") ~> (pc # "request")

\* C26 happens: the wrapper has returned the error of a refused access key
C26_Witness ==
    /\ pc = "done" /\ w.kind = "request" /\ w.phase = "done"
    /\ w.polls > 0 /\ IsAccessKeyRefusal(resp[1])
    /\ w.err # NIL /\ diags = ErrorDiag(w.err)


----------------------------------------------------------------------------
(* Claims about what the operations leave alone *)

\* a read has stored the Source it obtained
ReadStored ==
    /\ pc = "done" /\ w.kind \in {"deploy", "fetch"}
    /\ diags = NoDiags

\* C27: a read never stores a secret key: whatever the API answers, no step
\* changes the s3_secret_key the resource data holds, while a read that
\* succeeds does store the other deployment attributes of the Source it got.
C27_ReadKeepsSecretKey ==
    /\ [][d'.deployment.s3_secret_key = d.deployment.s3_secret_key]_vars
    /\ [](ReadStored
          => /\ d.deployment.s3_access_key =
                   Deref(w.result[1].Attributes.Deployment.S3AccessKey, "")
             /\ d.deployment.allows_upload =
                   Deref(w.result[1].Attributes.Deployment.AllowsUpload, FALSE)
             /\ d.deployment.type = w.result[1].Attributes.Deployment.Type
             /\ d.deployment_status = StatusOf(Return(w.result, NIL)))

\* C27 happens: the API echoed a secret key and the read stored the Source
C27_Witness ==
    /\ ReadStored
    /\ w.result[1].Attributes.Deployment.S3SecretKey = Ptr(EchoedSecret)
    /\ d.deployment.s3_secret_key = "secret"


\* C28: deleteSource clears the flag of the caller's Source before the request
\* is built, and assigns nothing afterwards: when the call has returned, with
\* or without an error, the caller's Source is the Source passed with
\* enabled=false, and the body sent already held enabled=false.
C28_DeleteLeavesSourceDisabled ==
    (pc = "returned" /\ call = "deleteSource")
    => /\ src = [arg EXCEPT !.Attributes.Enabled = Ptr(FALSE)]
       /\ wire[1].body.data.attributes.enabled = FALSE
       /\ ret.source = NIL

\* C28 happens: the update of an enabled Source failed
C28_Witness ==
    /\ pc = "returned" /\ call = "deleteSource"
    /\ ret.err # NIL
    /\ arg.Attributes.Enabled = Ptr(TRUE)
    /\ src.Attributes.Enabled = Ptr(FALSE)


\* C29: a delete sends one PATCH and nothing else: no wait is entered, neither
\* the retry wrapper's nor the deployment wait's, no GET is sent, and the error
\* of the one attempt, the invalid-access-key error included, is what the
\* delete returns.
C29_DeleteIsOnePatch ==
    (op = "delete" /\ pc = "done")
    => /\ Len(wire) = 1
       /\ wire[1].method = MethodPatch
       /\ wire[1].url = SourcePath(d.Id)
       /\ Polls = {}
       /\ w = NoWait
       /\ IsAccessKeyRefusal(resp[1])
          => /\ ret.err # NIL
             /\ diags = ErrorDiag(ret.err)

\* C29 happens: the delete's one PATCH was refused for the access key
C29_Witness ==
    /\ op = "delete" /\ pc = "done"
    /\ IsAccessKeyRefusal(resp[1])
    /\ Len(wire) = 1 /\ w.polls = 0
    /\ diags = ErrorDiag(ret.err)


----------------------------------------------------------------------------
(* Claims about the callers of getSourceById *)

\* C30: whoever calls getSourceById handles a return of no Source and no
\* error: the operation, be it a read of the resource or of the data source,
\* ends with an error and not with a nil pointer dereference.
C30_CallersHandleMissingSource ==
    (pc = "done" /\ call = "getSourceById" /\ ret = Return(NIL, NIL))
    => /\ Len(diags) = 1
       /\ diags[1].Severity = "error"

====
